---- MODULE Spec2Model ----
(***************************************************************************)
(* Model of discussion_app.py, the Broadway Database Explorer: a Streamlit *)
(* script that is re-executed from its first line on every widget change.  *)
(* One action per widget; every action runs the whole script (load, clean, *)
(* date filter, show filter, aggregate, rank, caption).                    *)
(*                                                                         *)
(* Numbers: pandas float64 values are modelled as fixed-point integers in  *)
(* hundredths (the text "$100.00" is 10000, the text "8" is 800).          *)
(* Timestamps: hours since 2021-01-01 00:00; a calendar date is a day      *)
(* number (timestamp \div 24).                                             *)
(* The slider of line 119 offers 5..30 in steps of 5; the model scales it  *)
(* to 1..MaxTopN in steps of 1 so that head(top_n) truncates frames of a   *)
(* few shows.                                                              *)
(***************************************************************************)
EXTENDS Integers, Sequences, FiniteSets, TLC

\* ---------------------------------------------------------------- bounds
MaxRows == 3
MaxTopN == 2

\* ---------------------------------------------------------- column names
\* The frame's columns are the fields of a record; each column variable of
\* lines 38-41 holds the field that stands for its CSV header.
date_col == "week_date"
show_col == "show"
gross_col == "this_week_gross"
perf_col == "performances"

AllShows == "All shows"
\* a missing SHOW cell (read_csv yields NaN for an empty field)
NaN == "<NaN>"

\* a row of a frame: its index label and its four columns
Row(i, d, s, g, p) ==
    [index |-> i, week_date |-> d, show |-> s, this_week_gross |-> g, performances |-> p]

\* ------------------------------------------------------------- the input
\* Rows the CSV file may hold (the index is assigned on load).
CsvRows ==
    << Row(0, "2021-01-01 00:00", "Hamilton", <<"$","1","0","0",".","0","0">>, <<"8">>),
       Row(0, "2021-01-02 13:00", "Hamilton", <<"$","2","0","0",".","0","0">>, <<"8">>),
       Row(0, "2021-01-01 00:00", "Wicked",   <<"$","0",".","0","0">>, <<"0">>),
       Row(0, "not-a-date",       "Wicked",   <<"$","1",",","0","0","0",".","0","0">>, <<"8">>),
       Row(0, "2021-01-02 13:00", "Chicago",  <<"N","/","A">>, <<"8">>),
       Row(0, "2021-01-03 00:00", "Chicago",  <<"-","$","5","0",".","0","0">>, <<"x">>),
       Row(0, "2021-01-03 00:00", NaN,        <<"$","3","0","0",".","0","0">>, <<"8">>),
       Row(0, "2021-01-02 13:00", "Wicked",   <<"$","3","0","0",".","0","0">>, <<"-","8">>) >>

Reindex(rows) == [i \in 1..Len(rows) |-> [rows[i] EXCEPT !.index = i - 1]]

Pick(S) ==
    LET pos == SelectSeq([i \in 1..Len(CsvRows) |-> i], LAMBDA i : i \in S)
    IN  Reindex([k \in 1..Len(pos) |-> CsvRows[pos[k]]])

Datasets == {Pick(S) : S \in {T \in SUBSET (1..Len(CsvRows)) : Cardinality(T) <= MaxRows}}

\* ------------------------------------------------------------ conversions
DigitChars == <<"0","1","2","3","4","5","6","7","8","9">>
IsDigit(c) == \E d \in 1..10 : DigitChars[d] = c
DigitVal(c) == (CHOOSE d \in 1..10 : DigitChars[d] = c) - 1

\* the value of a string of decimal digits
IntVal(s) ==
    LET v[k \in 0..Len(s)] == IF k = 0 THEN 0 ELSE v[k - 1] * 10 + DigitVal(s[k])
    IN  v[Len(s)]

\* .str.replace(r"[$,]", "", regex=True)
str_replace(text) == SelectSeq(text, LAMBDA c : c \notin {"$", ","})

\* an unsigned decimal with at most two fractional digits (the model's
\* resolution), in hundredths; anything else is NaN
unsigned_decimal(body) ==
    LET dots == {i \in 1..Len(body) : body[i] = "."}
        p    == IF dots = {} THEN Len(body) + 1 ELSE CHOOSE i \in dots : TRUE
        ip   == SubSeq(body, 1, p - 1)
        fp   == SubSeq(body, p + 1, Len(body))
        ok   == /\ Cardinality(dots) <= 1
                /\ \A i \in 1..Len(body) : i \in dots \/ IsDigit(body[i])
                /\ Len(body) > Cardinality(dots)
                /\ Len(fp) <= 2
    IN  IF ok THEN [nan |-> FALSE,
                    val |-> IntVal(ip) * 100
                            + (IF Len(fp) = 1 THEN IntVal(fp) * 10 ELSE IntVal(fp))]
              ELSE [nan |-> TRUE, val |-> 0]

negated(x) == [x EXCEPT !.val = 0 - x.val]

signed_decimal(text) ==
    IF Len(text) > 0 /\ text[1] = "-"
    THEN negated(CHOOSE x \in {unsigned_decimal(body) : body \in {Tail(text)}} : TRUE)
    ELSE unsigned_decimal(text)

\* pd.to_numeric(errors="coerce") on one cell: the number a text spells,
\* NaN for a text that spells none
to_numeric(text) == CHOOSE x \in {signed_decimal(cell) : cell \in {text}} : TRUE

fillna(x, v) == IF x.nan THEN v ELSE x.val

\* pd.to_datetime(errors="coerce") on one cell: NaT for text that is no date.
to_datetime(text) ==
    CASE text = "2021-01-01 00:00" -> [nat |-> FALSE, ts |-> 0]
      [] text = "2021-01-02 13:00" -> [nat |-> FALSE, ts |-> 37]
      [] text = "2021-01-03 00:00" -> [nat |-> FALSE, ts |-> 48]
      [] OTHER -> [nat |-> TRUE, ts |-> 0]

\* Series.dt.date / Timestamp.date(): the calendar day of a timestamp
dt_date(ts) == ts \div 24


\* ------------------------------------------------------------------ state
VARIABLES
    cache,          \* the frame st.cache_data keeps for load_data()
    sort_kind,      \* how the build's quicksort kernel places equal keys
    data,           \* the cleaned frame of this run
    failed,         \* the run stopped with an exception at the timeframe slider
    start_date, end_date, selected_show, metric_label, rank_type, top_n,
    filtered_time, show_list, filtered_table, agg, rank_source, ranked, caption

params == <<start_date, end_date, selected_show, metric_label, rank_type, top_n>>
outputs == <<data, failed, filtered_time, show_list, filtered_table, agg, rank_source,
             ranked, caption>>
vars == <<cache, sort_kind, params, outputs>>

\* ------------------------------------------------------ load and clean
\* load_data() under @st.cache_data: every run gets a fresh copy of the
\* cached frame, so the script's column assignments never reach the cache.
load_data(c) == c

\* data = data.dropna(subset=[date_col])
dropna_date(row) == ~row[date_col].nat

\* fault: the gross text goes to to_numeric with its "$" and "," left in
clean_gross_unstripped(cell) == fillna(to_numeric(cell), 0)

\* lines 49-54: strip "$" and ",", to_numeric, fillna(0)
clean_gross(cell) == fillna(to_numeric(str_replace(cell)), 0)

\* line 56: to_numeric, fillna(0) (no stripping)
clean_perf(cell) == fillna(to_numeric(cell), 0)

Clean(raw) ==
    LET parsed == [i \in 1..Len(raw) |->
                     [raw[i] EXCEPT ![date_col] = to_datetime(raw[i][date_col])]]
        kept   == SelectSeq(parsed, dropna_date)
    IN  [i \in 1..Len(kept) |->
            [kept[i] EXCEPT ![date_col]  = kept[i][date_col].ts,
                            ![gross_col] = clean_gross(kept[i][gross_col]),
                            ![perf_col]  = clean_perf(kept[i][perf_col])]]

\* ------------------------------------------------------ timeframe filter
SetMin(S) == CHOOSE x \in S : \A y \in S : x <= y
SetMax(S) == CHOOSE x \in S : \A y \in S : x >= y
Dates(d) == {dt_date(d[i][date_col]) : i \in 1..Len(d)}
min_date(d) == SetMin(Dates(d))
max_date(d) == SetMax(Dates(d))

\* fault: the timestamps, not their dates, are compared with the bounds
InTimeframe_timestamp(ts, sd, ed) == ts >= sd * 24 /\ ts <= ed * 24

InTimeframe(ts, sd, ed) == dt_date(ts) >= sd /\ dt_date(ts) <= ed

FilteredTime(d, sd, ed) == SelectSeq(d, LAMBDA r : InTimeframe(r[date_col], sd, ed))

\* ----------------------------------------------------------- show filter
\* the show names of the input in sorted() order
SortedShows == <<"Chicago", "Hamilton", "Wicked">>

Present(rows, s) == \E i \in 1..Len(rows) : rows[i][show_col] = s

\* sorted(filtered_time[show_col].dropna().unique().tolist())
sorted_unique(rows) == SelectSeq(SortedShows, LAMBDA s : Present(rows, s))

ShowList(ft) == <<AllShows>> \o sorted_unique(ft)

InSeq(x, s) == \E i \in 1..Len(s) : s[i] = x

FilteredTable(ft, sel) ==
    IF sel # AllShows THEN SelectSeq(ft, LAMBDA r : r[show_col] = sel) ELSE ft

\* ------------------------------------------------------------- aggregate
\* Series.sum(): the sum of a column, 0 for no rows
SumCol(rows, col) ==
    LET t[k \in 0..Len(rows)] == IF k = 0 THEN 0 ELSE t[k - 1] + rows[k][col]
    IN  t[Len(rows)]

\* fault: the groupby reads the show-filtered table
AggSource_table(ft, table) == table

\* fault: the groupby reads the window of the run before
AggSource_previous(ft, table) == filtered_time

\* the frame the groupby of line 129 reads
AggSource(ft, table) == ft

\* fault: a group for every show of the data set, in the window or not
group_keys_all(rows) == SortedShows

\* groupby(show_col, as_index=False): sorted keys, rows with a NaN key dropped
group_keys(rows) == SelectSeq(SortedShows, LAMBDA s : Present(rows, s))

\* fault: each total is the group's first row, not its sum
Agg_first(rows) ==
    LET keys == group_keys(rows)
    IN  [k \in 1..Len(keys) |->
            LET g == SelectSeq(rows, LAMBDA r : r[show_col] = keys[k])
            IN  [show |-> keys[k], performances |-> g[1][perf_col],
                 this_week_gross |-> g[1][gross_col]]]

Agg(rows) ==
    LET keys == group_keys(rows)
    IN  [k \in 1..Len(keys) |->
            LET g == SelectSeq(rows, LAMBDA r : r[show_col] = keys[k])
            IN  [show |-> keys[k], performances |-> SumCol(g, perf_col),
                 this_week_gross |-> SumCol(g, gross_col)]]

\* ------------------------------------------------------------------ rank
MetricLabels == {"Total Performances", "Total Gross (sum of weekly gross)"}
RankTypes == {"Top", "Bottom"}
metric_col_of(ml) == IF ml = "Total Performances" THEN perf_col ELSE gross_col

\* fault: the mask drops the zeros only
KeepForBottom_nonzero(v) == v # 0

\* lines 148, 150: the mask of the Bottom branch
KeepForBottom(v) == v > 0

RankSource(a, rt, mc) ==
    IF rt = "Bottom" THEN SelectSeq(a, LAMBDA r : KeepForBottom(r[mc])) ELSE a

\* sort_values(by=..., ascending=...) with the default kind="quicksort",
\* which pandas documents as not stable: the order of rows with equal keys
\* is the kernel's. "stable" is a kernel that keeps them in frame order
\* (pandas sorts a descending request by reversing, sorting and reversing
\* back, so frame order is kept there too); "unstable" is one that emits
\* them in the opposite order.
SortKinds == {"stable", "unstable"}

Before(rows, by, ascending, kind, i, j) ==
    \/ (IF ascending THEN rows[i][by] < rows[j][by] ELSE rows[i][by] > rows[j][by])
    \/ /\ rows[i][by] = rows[j][by]
       /\ (IF kind = "stable" THEN i < j ELSE i > j)

sort_values(rows, by, ascending, kind) ==
    LET n == Len(rows)
        place(i) == 1 + Cardinality({j \in 1..n : Before(rows, by, ascending, kind, j, i)})
    IN  [k \in 1..n |-> rows[CHOOSE i \in 1..n : place(i) = k]]

\* fault: no cut at n
head_all(rows, n) == rows

head(rows, n) == SubSeq(rows, 1, IF n < Len(rows) THEN n ELSE Len(rows))

\* fault: Bottom sorts descending like Top
Ascending_never(rt) == FALSE

Ascending(rt) == rt = "Bottom"

Ranked(rs, mc, rt, n, kind) == head(sort_values(rs, mc, Ascending(rt), kind), n)

\* st.caption of lines 201-211
NoCaption == "none"
GrossCaption == "Note: Bottom gross rankings exclude shows with total gross equal to zero"
PerfCaption == "Note: Bottom performance rankings exclude shows with total performances equal to zero"

\* fault: the performances note whatever the metric
Caption_performances(rt, mc) == IF rt = "Bottom" THEN PerfCaption ELSE NoCaption

Caption(rt, mc) ==
    IF rt = "Bottom" THEN (IF mc = gross_col THEN GrossCaption ELSE PerfCaption)
    ELSE NoCaption


\* ------------------------------------------------------------- the script
\* the slider of lines 119-125 (scaled: see the header); its default is the
\* second step
TopNValues == 1..MaxTopN
TopNDefault == IF MaxTopN >= 2 THEN 2 ELSE 1

\* The selectbox of lines 82-86 has no key: its identity includes its
\* options, so it keeps its value while the options are the same and is a
\* new widget at index 0 when they change.
SelectboxValue(old_options, new_options, old_value) ==
    IF new_options = old_options THEN old_value ELSE AllShows

NoPick == "<no pick>"

\* The first execution of the script: every widget returns its default. An
\* empty cleaned frame has min() = NaT, which st.slider rejects: the run
\* raises at lines 61-69 and renders nothing.
Init ==
    /\ cache \in Datasets
    /\ sort_kind \in SortKinds
    /\ data = Clean(load_data(cache))
    /\ selected_show = AllShows
    /\ metric_label = "Total Performances"
    /\ rank_type = "Top"
    /\ top_n = TopNDefault
    /\ IF data = <<>>
       THEN /\ failed = TRUE
            /\ start_date = 0
            /\ end_date = 0
            /\ filtered_time = <<>>
            /\ show_list = <<>>
            /\ filtered_table = <<>>
            /\ agg = <<>>
            /\ rank_source = <<>>
            /\ ranked = <<>>
            /\ caption = NoCaption
       ELSE /\ failed = FALSE
            /\ start_date = min_date(data)
            /\ end_date = max_date(data)
            /\ filtered_time = FilteredTime(data, start_date, end_date)
            /\ show_list = ShowList(filtered_time)
            /\ filtered_table = FilteredTable(filtered_time, selected_show)
            /\ agg = Agg(AggSource(filtered_time, filtered_table))
            /\ rank_source = RankSource(agg, rank_type, metric_col_of(metric_label))
            /\ ranked = Ranked(rank_source, metric_col_of(metric_label), rank_type, top_n,
                               sort_kind)
            /\ caption = Caption(rank_type, metric_col_of(metric_label))

\* One execution of the script, top to bottom, each statement reading what
\* the statements before it assigned. The timeframe, metric, rank type and
\* count widgets return sd, ed, ml, rt, n; the selectbox returns pick when
\* the user has just picked an option.
Script(sd, ed, pick, ml, rt, n) ==
    /\ UNCHANGED <<cache, sort_kind>>
    /\ data' = Clean(load_data(cache))
    /\ metric_label' = ml
    /\ rank_type' = rt
    /\ top_n' = n
    /\ IF data' = <<>>
       THEN /\ failed' = TRUE
            /\ UNCHANGED <<start_date, end_date, selected_show>>
            /\ filtered_time' = <<>>
            /\ show_list' = <<>>
            /\ filtered_table' = <<>>
            /\ agg' = <<>>
            /\ rank_source' = <<>>
            /\ ranked' = <<>>
            /\ caption' = NoCaption
       ELSE /\ failed' = FALSE
            /\ start_date' = sd
            /\ end_date' = ed
            /\ filtered_time' = FilteredTime(data', start_date', end_date')
            /\ show_list' = ShowList(filtered_time')
            /\ selected_show' = IF pick # NoPick THEN pick
                                ELSE SelectboxValue(show_list, show_list', selected_show)
            /\ filtered_table' = FilteredTable(filtered_time', selected_show')
            /\ agg' = Agg(AggSource(filtered_time', filtered_table'))
            /\ rank_source' = RankSource(agg', rank_type', metric_col_of(metric_label'))
            /\ ranked' = Ranked(rank_source', metric_col_of(metric_label'), rank_type',
                                top_n', sort_kind)
            /\ caption' = Caption(rank_type', metric_col_of(metric_label'))

\* the user moves the timeframe slider (lines 64-69)
SetTimeframe(sd, ed) ==
    /\ ~failed
    /\ sd <= ed
    /\ <<sd, ed>> # <<start_date, end_date>>
    /\ Script(sd, ed, NoPick, metric_label, rank_type, top_n)

\* the user picks an option of the show selectbox (lines 82-86)
SelectShow(sel) ==
    /\ ~failed
    /\ InSeq(sel, show_list)
    /\ sel # selected_show
    /\ Script(start_date, end_date, sel, metric_label, rank_type, top_n)

\* the user picks a metric (lines 108-111)
SelectMetric(ml) ==
    /\ ~failed
    /\ ml # metric_label
    /\ Script(start_date, end_date, NoPick, ml, rank_type, top_n)

\* the user picks Top or Bottom (lines 113-117)
SelectRankType(rt) ==
    /\ ~failed
    /\ rt # rank_type
    /\ Script(start_date, end_date, NoPick, metric_label, rt, top_n)

\* the user moves the number-of-shows slider (lines 119-125)
SetTopN(n) ==
    /\ ~failed
    /\ n # top_n
    /\ Script(start_date, end_date, NoPick, metric_label, rank_type, n)

\* the script is rerun with every widget as it is
Rerun ==
    Script(start_date, end_date, NoPick, metric_label, rank_type, top_n)

\* the days the timeframe slider offers: min_date .. max_date
SliderDays == IF data = <<>> THEN {} ELSE min_date(data)..max_date(data)

ShowNames == {SortedShows[i] : i \in 1..Len(SortedShows)}

Next ==
    \/ \E sd \in SliderDays, ed \in SliderDays : SetTimeframe(sd, ed)
    \/ \E sel \in {AllShows} \cup ShowNames : SelectShow(sel)
    \/ \E ml \in MetricLabels : SelectMetric(ml)
    \/ \E rt \in RankTypes : SelectRankType(rt)
    \/ \E n \in TopNValues : SetTopN(n)
    \/ Rerun

Spec == Init /\ [][Next]_vars


\* ================================================================ claims
metric_col == metric_col_of(metric_label)
ShowsOf(rows) == {rows[i].show : i \in 1..Len(rows)}
IndexOf(rows) == {rows[i].index : i \in 1..Len(rows)}
Named(rows) == SelectSeq(rows, LAMBDA r : r.show # NaN)

\* C1 (as the spec states it): a Bottom ranking removes exactly the
\* Aggregates whose total on the active metric equals 0, so one with a
\* negative total stays eligible; a Top ranking removes none.
C1_BottomRemovesExactlyZeros ==
    ~failed =>
        /\ rank_type = "Bottom" =>
              \A i \in 1..Len(agg) : InSeq(agg[i], rank_source) <=> agg[i][metric_col] # 0
        /\ rank_type = "Top" => rank_source = agg

C3_ShowFilterNeverReachesRanking ==
    [][(/\ start_date' = start_date
        /\ end_date' = end_date
        /\ metric_label' = metric_label
        /\ rank_type' = rank_type
        /\ top_n' = top_n)
       => (agg' = agg /\ rank_source' = rank_source /\ ranked' = ranked)]_vars

\* C3 witness: a show is selected, the table is a strict part of the window,
\* and the ranking holds another show.
C3_Witness ==
    /\ ~failed
    /\ selected_show # AllShows
    /\ Len(filtered_table) < Len(filtered_time)
    /\ \E k \in 1..Len(ranked) : ranked[k].show # selected_show

\* C4: filtered_time holds exactly the cleaned records whose timestamp lies
\* on a day of [start_date, end_date] (both end days whole), in input order.
OnDays(ts, sd, ed) == sd * 24 <= ts /\ ts < (ed + 1) * 24

C4_DateFilterExact ==
    ~failed =>
        /\ \A i \in 1..Len(data) :
              OnDays(data[i].week_date, start_date, end_date) <=> InSeq(data[i], filtered_time)
        /\ \A k \in 1..Len(filtered_time) : InSeq(filtered_time[k], data)
        /\ \A k, l \in 1..Len(filtered_time) :
              k < l => filtered_time[k].index < filtered_time[l].index

\* C4 witness: a record dated on the end day after midnight is kept while
\* another record is cut.
C4_Witness ==
    /\ ~failed
    /\ Len(filtered_time) < Len(data)
    /\ \E k \in 1..Len(filtered_time) : filtered_time[k].week_date > end_date * 24

\* C5 (as the spec states it): one Aggregate per distinct show of the
\* window, and the Aggregates' totals add up to the totals of all records
\* of the window, records without a show included.
C5_SumLawAllRecords ==
    ~failed =>
        /\ SumCol(agg, perf_col) = SumCol(filtered_time, perf_col)
        /\ SumCol(agg, gross_col) = SumCol(filtered_time, gross_col)

\* C5 (amended): one Aggregate per distinct show name of the window (a
\* missing show is no name), and the Aggregates' totals add up to the totals
\* of the window's records that have a show; records without one are in no
\* Aggregate.
C5_SumLawNamedRecords ==
    ~failed =>
        /\ ShowsOf(agg) = ShowsOf(filtered_time) \ {NaN}
        /\ Cardinality(ShowsOf(agg)) = Len(agg)
        /\ SumCol(agg, perf_col) = SumCol(Named(filtered_time), perf_col)
        /\ SumCol(agg, gross_col) = SumCol(Named(filtered_time), gross_col)

\* C5 witness: the window holds a record without a show next to a show with
\* two records.
C5_Witness ==
    /\ ~failed
    /\ NaN \in ShowsOf(filtered_time)
    /\ Len(agg) >= 1
    /\ Len(Named(filtered_time)) > Len(agg)

\* C6: the steps that switch between Top and Bottom and nothing else
RankTypeSwitched ==
    /\ ~failed
    /\ rank_type' # rank_type
    /\ start_date' = start_date
    /\ end_date' = end_date
    /\ metric_label' = metric_label
    /\ top_n' = top_n

NoZeroTotal == \A i \in 1..Len(agg) : agg[i][metric_col] # 0
DistinctTotals ==
    \A i, j \in 1..Len(agg) : i # j => agg[i][metric_col] # agg[j][metric_col]
PositiveTotals == {i \in 1..Len(agg) : agg[i][metric_col] > 0}

Better(i, j) ==
    IF rank_type = "Bottom" THEN rank_source[i][metric_col] < rank_source[j][metric_col]
    ELSE rank_source[i][metric_col] > rank_source[j][metric_col]
Tied(i, j) == rank_source[i][metric_col] = rank_source[j][metric_col]
StablePlace(i) ==
    1 + Cardinality({j \in 1..Len(rank_source) : Better(j, i) \/ (Tied(j, i) /\ j < i)})
LimitOrAll == IF top_n < Len(rank_source) THEN top_n ELSE Len(rank_source)

\* C7 (as the spec states it): the ranked list is the first min(limit,
\* eligible) entries of the eligible Aggregates in metric order, descending
\* for Top and ascending for Bottom, equal values in input order.
C7_StableRanking ==
    ~failed =>
        /\ Len(ranked) = LimitOrAll
        /\ \A k \in 1..Len(ranked) :
              \E i \in 1..Len(rank_source) : StablePlace(i) = k /\ ranked[k] = rank_source[i]

\* C7 (amended): the ranked list is min(limit, eligible) distinct eligible
\* Aggregates in metric order, descending for Top and ascending for Bottom,
\* none of them worse than an eligible Aggregate left out; the order of
\* equal values, and which of them survive the cut, is not fixed.
C7_RankingByMetric ==
    ~failed =>
        /\ Len(ranked) = LimitOrAll
        /\ Cardinality(ShowsOf(ranked)) = Len(ranked)
        /\ \A k \in 1..Len(ranked) : InSeq(ranked[k], rank_source)
        /\ \A k, l \in 1..Len(ranked) :
              k < l => IF rank_type = "Bottom"
                       THEN ranked[k][metric_col] <= ranked[l][metric_col]
                       ELSE ranked[k][metric_col] >= ranked[l][metric_col]
        /\ \A k \in 1..Len(ranked), i \in 1..Len(rank_source) :
              ~InSeq(rank_source[i], ranked) =>
                  IF rank_type = "Bottom"
                  THEN ranked[k][metric_col] <= rank_source[i][metric_col]
                  ELSE ranked[k][metric_col] >= rank_source[i][metric_col]

\* C7 witness: the cut falls between two eligible Aggregates of equal value.
C7_Witness ==
    /\ ~failed
    /\ Len(ranked) < Len(rank_source)
    /\ \E i \in 1..Len(rank_source) :
          /\ ~InSeq(rank_source[i], ranked)
          /\ rank_source[i][metric_col] = ranked[Len(ranked)][metric_col]

\* C8: the cleaned frame holds a row for exactly the input rows whose date
\* parses; a kept row has the parsed date, the unchanged show, and for gross
\* and performances the number the text spells or 0 when it spells none; a
\* dropped row is in no table and in no Aggregate.
Parses(x) == ~x.nan
NumberOr0(x) == IF Parses(x) THEN x.val ELSE 0
Kept == {i \in 1..Len(cache) : ~to_datetime(cache[i].week_date).nat}
InWindowFor(r, name) ==
    r.show = name /\ OnDays(r.week_date, start_date, end_date)

C8_CleanDropsOnlyBadDates ==
    /\ IndexOf(data) = {cache[i].index : i \in Kept}
    /\ Len(data) = Cardinality(Kept)
    /\ \A k \in 1..Len(data) : \A i \in 1..Len(cache) :
          data[k].index = cache[i].index =>
              /\ data[k].week_date = to_datetime(cache[i].week_date).ts
              /\ data[k].show = cache[i].show
              /\ data[k].this_week_gross =
                    NumberOr0(to_numeric(str_replace(cache[i].this_week_gross)))
              /\ data[k].performances = NumberOr0(to_numeric(cache[i].performances))
    /\ IndexOf(filtered_time) \subseteq IndexOf(data)
    /\ IndexOf(filtered_table) \subseteq IndexOf(data)
    /\ \A a \in 1..Len(agg) :
          /\ agg[a].performances =
                SumCol(SelectSeq(data, LAMBDA r : InWindowFor(r, agg[a].show)), perf_col)
          /\ agg[a].this_week_gross =
                SumCol(SelectSeq(data, LAMBDA r : InWindowFor(r, agg[a].show)), gross_col)

\* C8 witness: one input row is dropped for its date, and a row whose gross
\* text spells no number is kept with gross 0 and counts its performances
\* into its show's Aggregate.
C8_Witness ==
    /\ Cardinality(Kept) < Len(cache)
    /\ \E k \in 1..Len(data) : \E i \in 1..Len(cache) :
          /\ data[k].index = cache[i].index
          /\ ~Parses(to_numeric(str_replace(cache[i].this_week_gross)))
          /\ data[k].this_week_gross = 0
          /\ data[k].performances > 0
          /\ \E a \in 1..Len(agg) :
                agg[a].show = data[k].show /\ agg[a].performances >= data[k].performances

\* what one run of the script from its first line yields for the widget
\* values of this state: each frame is the function the script computes of
\* the frame before it, from the cleaned frame on
FreshOutputs ==
    /\ failed <=> data = <<>>
    /\ ~failed =>
          /\ filtered_time = FilteredTime(data, start_date, end_date)
          /\ show_list = ShowList(filtered_time)
          /\ InSeq(selected_show, show_list)
          /\ filtered_table = FilteredTable(filtered_time, selected_show)
          /\ agg = Agg(filtered_time)
          /\ rank_source = RankSource(agg, rank_type, metric_col)
          /\ ranked = Ranked(rank_source, metric_col, rank_type, top_n, sort_kind)
          /\ caption = Caption(rank_type, metric_col)

\* C9: the first run cleans the loaded records; every later run leaves the
\* loaded records and the cleaned frame as the first run had them, and its
\* table, Aggregates and ranked list are those of a single fresh run with
\* the widget values it ends with.
C9_RerunIsStateless ==
    /\ data = Clean(cache)
    /\ FreshOutputs
    /\ [][cache' = cache /\ data' = data /\ FreshOutputs']_vars

\* C9 witness: a state reached by changing every widget away from its
\* default.
C9_Witness ==
    /\ ~failed
    /\ start_date # min_date(data)
    /\ selected_show # AllShows
    /\ metric_label # "Total Performances"
    /\ rank_type = "Bottom"
    /\ top_n # TopNDefault
    /\ ranked # <<>>

\* C10: a Bottom run shows the zero-exclusion note of the active metric, a
\* Top run shows no note; so a ranking that lost an Aggregate to the
\* exclusion always carries the note.
C10_NoteMatchesRanking ==
    ~failed =>
        /\ rank_type = "Bottom" /\ metric_col = gross_col => caption = GrossCaption
        /\ rank_type = "Bottom" /\ metric_col = perf_col => caption = PerfCaption
        /\ rank_type = "Top" => caption = NoCaption
        /\ Len(rank_source) < Len(agg) => caption \in {GrossCaption, PerfCaption}

\* C10 witness: a Bottom ranking by gross that excluded an Aggregate and
\* shows the gross note.
C10_Witness ==
    /\ ~failed
    /\ rank_type = "Bottom"
    /\ metric_col = gross_col
    /\ Len(rank_source) < Len(agg)
    /\ caption = GrossCaption

====
